---- MODULE Spec2Model ----
(***************************************************************************)
(* A small-step model of the wot++ evaluator (src/backend/eval/eval.cpp)  *)
(* and of its driver wpp::run.  The recursion of eval_ast is made         *)
(* explicit as a stack of frames: every frame is one activation of         *)
(* eval_ast on a node of the arena, and every action is one handler of     *)
(* the visitor, or the part of a handler that runs between two recursive   *)
(* calls of eval_ast.                                                      *)
(***************************************************************************)
EXTENDS Integers, Sequences, FiniteSets, TLC

\* Longest generated document, in top-level statements.
MaxStmts == 4

\* Longest string handed to slice and find.
MaxLen == 3

VARIABLES
    tree,       \* env.tree: the node arena, a sequence indexed by node_t
    functions,  \* env.functions: mangled name -> vector of node_t
    scopes,     \* the Arguments objects alive on the C++ stack (env_args locals)
    stack,      \* the activations of eval_ast, innermost last
    mode,       \* "eval": top frame just entered; "ret": a callee returned
                \* to the top frame; "throw": an exception is unwinding
    ret,        \* the std::string returned by the last completed eval_ast
    exc,        \* the wpp::Exception in flight (pos, msg)
    cwd,        \* std::filesystem::current_path()
    out,        \* std::cout
    err,        \* std::cerr (warnings, log output, diagnostics)
    rc,         \* exit code of wpp::run, -1 while it runs
    runpc,      \* position inside wpp::run
    rhsFirst,   \* operand order the build chose for operator+ in Concat
    parsed,     \* history: the arena as the parser produced it
    hist,       \* history: definitions, drops, resolutions, Var body runs
    call        \* the string intrinsic applied on its own, outside a run

vars == <<tree, functions, scopes, stack, mode, ret, exc, cwd, out, err,
          rc, runpc, rhsFirst, parsed, hist, call>>

-----------------------------------------------------------------------------
(* Node variants.  A template is a node whose kids are templates; the      *)
(* parser allocates it into the arena, where kids are handles.             *)

Node(tag, value, params, kids) ==
    [tag |-> tag, value |-> value, params |-> params, kids |-> kids]

\* String{value}
String(v) == Node("String", v, <<>>, <<>>)

\* Concat{lhs, rhs}
Concat(l, r) == Node("Concat", "", <<>>, <<l, r>>)

\* Block{statements, expr}
Block(stmts, e) == Node("Block", "", <<>>, stmts \o <<e>>)

\* FnInvoke{identifier, arguments}
FnInvoke(name, arguments) == Node("FnInvoke", name, <<>>, arguments)

\* Fn{identifier, parameters, body}
Fn(name, params, body) == Node("Fn", name, params, <<body>>)

\* Var{identifier, body}
Var(name, body) == Node("Var", name, <<>>, <<body>>)

\* Drop{func}
Drop(func) == Node("Drop", "", <<>>, <<func>>)

\* Intrinsic{type, identifier, exprs}
Intrinsic(name, exprs) == Node("Intrinsic", name, <<>>, exprs)

\* Document{stmts}
Document(stmts) == Node("Document", "", <<>>, stmts)

\* Pre{exprs, stmts}: the prefix expressions are kept in `params`.
Pre(exprs, stmts) == Node("Pre", "", exprs, stmts)

\* Codeify{expr}
Codeify(e) == Node("Codeify", "", <<>>, <<e>>)

\* wpp::NODE_EMPTY, the handle of no node.
NODE_EMPTY == 0

\* The template of an absent default arm.
NoDefault == Node("", "", <<>>, <<>>)

\* Map{expr, cases, default_case}: the kids are the test, then pattern and
\* hand of every arm, then the default arm when there is one.
Map(test, cases, default) ==
    Node("Map", IF default = NoDefault THEN "" ELSE "default", <<>>,
         <<test>>
         \o [i \in 1..2 * Len(cases) |-> cases[(i + 1) \div 2][2 - (i % 2)]]
         \o (IF default = NoDefault THEN <<>> ELSE <<default>>))

\* Field accessors of arena nodes.
lhs(n) == n.kids[1]
rhs(n) == n.kids[2]
body(n) == n.kids[1]
stmts(n) == SubSeq(n.kids, 1, Len(n.kids) - 1)
expr(n) == n.kids[Len(n.kids)]
test(n) == n.kids[1]
n_cases(n) == (Len(n.kids) - (IF n.value = "default" THEN 2 ELSE 1)) \div 2
case_first(n, i) == n.kids[2 * i]
case_second(n, i) == n.kids[2 * i + 1]
default_case(n) == IF n.value = "default" THEN n.kids[Len(n.kids)] ELSE NODE_EMPTY

-----------------------------------------------------------------------------
(* The parser, wpp::document(lex, tree): appends the nodes of a document   *)
(* to the arena, children before their parent, and returns the root.       *)

RECURSIVE Allocate(_, _)
RECURSIVE AllocateAll(_, _)

\* Allocate template t after `base` existing nodes.
Allocate(t, base) ==
    LET es == IF t.tag = "Pre" THEN AllocateAll(t.params, base)
              ELSE [nodes |-> <<>>, roots |-> t.params]
        ks == AllocateAll(t.kids, base + Len(es.nodes))
    IN  [nodes |-> es.nodes
                   \o Append(ks.nodes, Node(t.tag, t.value, es.roots, ks.roots)),
         root  |-> base + Len(es.nodes) + Len(ks.nodes) + 1]

AllocateAll(ts, base) ==
    IF ts = <<>> THEN [nodes |-> <<>>, roots |-> <<>>]
    ELSE LET h == Allocate(Head(ts), base)
             r == AllocateAll(Tail(ts), base + Len(h.nodes))
         IN  [nodes |-> h.nodes \o r.nodes, roots |-> <<h.root>> \o r.roots]

-----------------------------------------------------------------------------
(* Strings and maps.                                                       *)

\* wpp::cat(name, n): the pieces streamed one after the other.
cat(name, n) == name \o ToString(n)

EmptyMap == [k \in {} |-> ""]

\* map.insert_or_assign(k, v) / vector-valued emplace
Assign(m, k, v) == [x \in DOMAIN m \cup {k} |-> IF x = k THEN v ELSE m[x]]

\* map.erase(k)
Erase(m, k) == [x \in DOMAIN m \ {k} |-> m[x]]

Last(s) == s[Len(s)]
Front(s) == SubSeq(s, 1, Len(s) - 1)

-----------------------------------------------------------------------------
(* The file system and the source texts.  A text is what the parser makes  *)
(* of it: a document, or a parse error.                                    *)

ParseError == [ok |-> FALSE, doc |-> Document(<<>>)]
Parses(d) == [ok |-> TRUE, doc |-> d]

\* What the parser makes of the texts that are evaluated as code.
Texts ==
    ("\"ok\"" :> Parses(Document(<<String("ok")>>)))
    @@ ("error(\"in\")" :> Parses(Document(<<Intrinsic("error", <<String("in")>>)>>)))
    @@ ("{" :> ParseError)

\* std::filesystem::path{fname}: the components of a file name.
PathOf(fname) ==
    CASE fname = "proj/main.wpp" -> <<"proj", "main.wpp">>
      [] fname = "sub/ok.wpp"    -> <<"sub", "ok.wpp">>
      [] fname = "sub/fail.wpp"  -> <<"sub", "fail.wpp">>
      [] fname = "sub/bad.wpp"   -> <<"sub", "bad.wpp">>
      [] fname = "sub/nest.wpp"  -> <<"sub", "nest.wpp">>
      [] OTHER                   -> <<fname>>

\* path.parent_path()
parent_path(p) == Front(p)

\* The directory w++ is started in, and the -i argument.
LaunchDir == <<>>
InputName == "proj/main.wpp"

\* The files that can be included, by absolute path.
Files ==
    (<<"proj", "sub", "ok.wpp">> :>
        Parses(Document(<<Fn("s", <<>>, String("S")), String("i")>>)))
    @@ (<<"proj", "sub", "fail.wpp">> :>
        Parses(Document(<<Intrinsic("error", <<String("boom")>>)>>)))
    @@ (<<"proj", "sub", "bad.wpp">> :> ParseError)
    @@ (<<"proj", "sub", "nest.wpp">> :>
        Parses(Document(<<Intrinsic("source", <<String("ok.wpp")>>),
                          FnInvoke("s", <<>>)>>)))
    @@ (<<"proj", "inc.wpp">> :>
        Parses(Document(<<Intrinsic("source", <<String("sub/fail.wpp")>>)>>)))

IncludeNames ==
    {"sub/ok.wpp", "sub/fail.wpp", "sub/bad.wpp", "sub/nest.wpp",
     "inc.wpp", "nope.wpp"}

-----------------------------------------------------------------------------
(* The documents w++ is run on.                                            *)

\* Statements of the generated documents: definitions, drops and
\* invocations of f with no and with one argument.
Pool ==
    { Fn("f", <<>>, String("a")),
      Var("f", String("b")),
      Drop(FnInvoke("f", <<>>)),
      FnInvoke("f", <<>>),
      Fn("f", <<"p">>, FnInvoke("p", <<>>)),
      FnInvoke("f", <<String("v")>>),
      Drop(FnInvoke("f", <<String("")>>)) }

Generated == UNION { [1..n -> Pool] : n \in 0..MaxStmts }

Log(s) == Intrinsic("log", <<String(s)>>)

\* let p "F"  let k(r) p .. r  let h(p) k("q") .. p  h("v")  k("z")
DocInherit ==
    <<Fn("p", <<>>, String("F")),
      Fn("k", <<"r">>, Concat(FnInvoke("p", <<>>), FnInvoke("r", <<>>))),
      Fn("h", <<"p">>, Concat(FnInvoke("k", <<String("q")>>), FnInvoke("p", <<>>))),
      FnInvoke("h", <<String("v")>>),
      FnInvoke("k", <<String("z")>>)>>

\* let g(p) p  let h(p) g(log("L")) .. p  h("v")  g(log("L"))
DocShadow ==
    <<Fn("g", <<"p">>, FnInvoke("p", <<>>)),
      Fn("h", <<"p">>, Concat(FnInvoke("g", <<Log("L")>>), FnInvoke("p", <<>>))),
      FnInvoke("h", <<String("v")>>),
      FnInvoke("g", <<Log("L")>>)>>

\* let p(a) a  let m(p) p("1")  m("v")
DocArgCall ==
    <<Fn("p", <<"a">>, FnInvoke("a", <<>>)),
      Fn("m", <<"p">>, FnInvoke("p", <<String("1")>>)),
      FnInvoke("m", <<String("v")>>)>>

\* let d() { var x { log("L") "c" }  x }  d()  d()  drop x()  x
DocVarTwice ==
    <<Fn("d", <<>>, Block(<<Var("x", Block(<<Log("L")>>, String("c")))>>,
                          FnInvoke("x", <<>>))),
      FnInvoke("d", <<>>),
      FnInvoke("d", <<>>),
      Drop(FnInvoke("x", <<>>)),
      FnInvoke("x", <<>>)>>

\* let w() { var x { drop f()  f() }  x }  let f "b"  let f w()  let f w()  f()
DocVarReenter ==
    <<Fn("w", <<>>, Block(<<Var("x", Block(<<Drop(FnInvoke("f", <<>>))>>,
                                           FnInvoke("f", <<>>)))>>,
                          FnInvoke("x", <<>>))),
      Fn("f", <<>>, String("b")),
      Fn("f", <<>>, FnInvoke("w", <<>>)),
      Fn("f", <<>>, FnInvoke("w", <<>>)),
      FnInvoke("f", <<>>)>>

\* { var x "1"  "" } .. x     log("A") .. log("B")
DocConcat ==
    <<Concat(Block(<<Var("x", String("1"))>>, String("")), FnInvoke("x", <<>>)),
      Concat(Log("A"), Log("B"))>>

\* match t { { log("A") "a" } -> "1"  "b" -> "2"  { log("B") "b" } -> "3"  * -> "4" }
\* with the default arm, and without.
DocMap(t, default) ==
    <<Map(String(t),
          <<<<Block(<<Log("A")>>, String("a")), String("1")>>,
            <<String("b"), String("2")>>,
            <<Block(<<Log("B")>>, String("b")), String("3")>>>>,
          default)>>

\* prefix "p" { prefix "q" { let g() "hi" } }
PreNested ==
    Pre(<<String("p")>>, <<Pre(<<String("q")>>, <<Fn("g", <<>>, String("hi"))>>)>>)

\* prefix "p" { prefix "q" { let g() "hi" } }  pqg()  g()
DocPre == <<PreNested, FnInvoke("pqg", <<>>), FnInvoke("g", <<>>)>>

\* let m() { prefix "p" { prefix "q" { let g() "hi" } }  "" }  m()  m()  pqg()
DocPreTwice ==
    <<Fn("m", <<>>, Block(<<PreNested>>, String(""))),
      FnInvoke("m", <<>>),
      FnInvoke("m", <<>>),
      FnInvoke("pqg", <<>>)>>

\* { "s"  let h() "1"  h() }
DocBlock ==
    <<Block(<<String("s"), Fn("h", <<>>, String("1"))>>, FnInvoke("h", <<>>))>>

\* eval(e) as the intrinsic, and as the Codeify node.
EvalOf(kind, e) ==
    IF kind = "Codeify" THEN Codeify(e) ELSE Intrinsic("eval", <<e>>)

\* eval(e) .. "t" for the code texts, and for an argument that fails.
DocEval(kind, e) == <<Concat(EvalOf(kind, e), String("t"))>>

EvalArguments ==
    {String(t) : t \in DOMAIN Texts} \cup {Intrinsic("error", <<String("x")>>)}

\* Ten arguments: "v", ..., "v".
TenArguments == [i \in 1..10 |-> String("v")]

\* let f1() "A"  f("v", ..., "v")
DocCollide == <<Fn("f1", <<>>, String("A")), FnInvoke("f", TenArguments)>>

\* let f1() "A"  drop f("v", ..., "v")  f1()
DocCollideDrop ==
    <<Fn("f1", <<>>, String("A")), Drop(FnInvoke("f", TenArguments)),
      FnInvoke("f1", <<>>)>>

\* slice("aba", start, end)
DocSlice(start, end) ==
    <<Intrinsic("slice", <<String("aba"), String(start), String(end)>>)>>

\* A slice inside the string, one before its start, one that is no number,
\* one that ends before it starts.
SliceRanges == {<<"0", "1">>, <<"-5", "-1">>, <<"a", "1">>, <<"2", "1">>}

\* source(name)  "t"
DocSource(name) == <<Intrinsic("source", <<String(name)>>), String("t")>>

Scenarios ==
    {DocInherit, DocShadow, DocArgCall, DocVarTwice, DocVarReenter, DocConcat,
     DocPre, DocPreTwice, DocBlock, DocCollide, DocCollideDrop}
    \cup {DocSource(name) : name \in IncludeNames}
    \cup {DocEval(k, e) : k \in {"Codeify", "Intrinsic"}, e \in EvalArguments}
    \cup {DocSlice(r[1], r[2]) : r \in SliceRanges}
    \cup {DocMap(t, d) : t \in {"a", "b", "z"}, d \in {NoDefault, String("4")}}

\* What the parser makes of the input file.
Inputs == {ParseError} \cup {Parses(Document(d)) : d \in Generated \cup Scenarios}

-----------------------------------------------------------------------------
(* Activations of eval_ast.                                                *)

\* The Fn copied out of the arena by FnInvoke, before any is copied.
NoFunc == [node |-> 0, callee_name |-> "", params |-> <<>>, body |-> 0]

\* eval_ast(node_id, env, args) entered on node nd: args is the index of
\* the caller's Arguments in scopes, 0 for the null pointer.
\*   nd       `variant`, the node the visitor was dispatched on
\*   pc, i    position inside the handler, loop index
\*   str      the local accumulator `str`
\*   vals     results of calls the handler has made so far
\*   func     FnInvoke: the copied callee
\*   env_args FnInvoke: index of the local env_args in scopes, 0 before
\*   old_path intrinsic_source: the saved directory
\*   evals    history: argument positions this activation has evaluated
\*   snap     history: *args as it was on entry
Frame(node_id, nd, args, sc) ==
    [node |-> node_id, nd |-> nd, args |-> args, pc |-> 0, i |-> 0,
     str |-> "", vals |-> <<>>, func |-> NoFunc, env_args |-> 0,
     old_path |-> <<>>, evals |-> <<>>,
     snap |-> IF args = 0 THEN EmptyMap ELSE sc[args]]

top == stack[Len(stack)]

\* The visitor is inside the handler of `tag`, at its start or just after
\* a call of eval_ast returned to it.
At(tag) ==
    /\ runpc = "eval"
    /\ stack # <<>>
    /\ mode \in {"eval", "ret"}
    /\ top.nd.tag = tag

\* The handler, now in state f, calls eval_ast(child, env, args), where
\* the child is node nd and sc is the state of the Arguments objects.
CallIn(f, child, nd, args, sc) ==
    /\ stack' = Append([stack EXCEPT ![Len(stack)] = f],
                       Frame(child, nd, args, sc))
    /\ mode' = "eval"
    /\ UNCHANGED <<ret, exc>>

Call(f, child, args) == CallIn(f, child, tree[child], args, scopes)

\* eval_ast returns s to its caller.
Return(s) ==
    /\ stack' = Front(stack)
    /\ ret' = s
    /\ mode' = "ret"
    /\ UNCHANGED exc

\* throw wpp::Exception{pos, msg}: the position is that of node `pos`.
Throw(pos, msg) ==
    /\ exc' = [pos |-> pos, msg |-> msg]
    /\ mode' = "throw"
    /\ UNCHANGED <<stack, ret>>

NoExc == [pos |-> 0, msg |-> ""]

\* main's warning_flags: every warning is on.
warning_flags ==
    {"WARN_FUNC_REDEFINED", "WARN_PARAM_SHADOW_FUNC",
     "WARN_PARAM_SHADOW_PARAM", "WARN_VARFUNC_REDEFINED"}

\* wpp::warn(pos, ...) when the flag is set and the condition holds.
warn(flag, cond, pos, msg) ==
    IF flag \in warning_flags /\ cond
    THEN Append(err, [kind |-> "warning", pos |-> pos, msg |-> msg])
    ELSE err

RECURSIVE Joined(_)
\* name += ... over the strings of q, first to last.
Joined(q) == IF q = <<>> THEN "" ELSE Head(q) \o Joined(Tail(q))

(* std::string as the string intrinsics see it: a sequence of characters.  *)

Letters == {"a", "b"}
Digits == <<"0", "1", "2", "3", "4", "5", "6", "7", "8", "9">>
Characters == Letters \cup {"-"} \cup {Digits[d] : d \in 1..Len(Digits)}

\* The std::strings of at most n characters over `alphabet`.
StringsOver(alphabet, n) == UNION {[1..k -> alphabet] : k \in 0..n}

\* The TLA+ string of a character sequence, and back.
Str(q) == Joined(q)
Chars(str) == CHOOSE q \in StringsOver(Characters, MaxLen) : Str(q) = str

IsDigit(c) == \E d \in 1..Len(Digits) : Digits[d] = c
DigitValue(c) == (CHOOSE d \in 1..Len(Digits) : Digits[d] = c) - 1

RECURSIVE Decimal(_)
\* The decimal digits of n >= 0.
Decimal(n) ==
    IF n < Len(Digits) THEN <<Digits[n + 1]>>
    ELSE Append(Decimal(n \div Len(Digits)), Digits[(n % Len(Digits)) + 1])

\* std::to_string(n)
to_string(n) == IF n < 0 THEN <<"-">> \o Decimal(-n) ELSE Decimal(n)

RECURSIVE Accumulated(_, _)
\* The value of the digits q starts with, continuing from acc.
Accumulated(q, acc) ==
    IF q = <<>> \/ ~IsDigit(Head(q)) THEN acc
    ELSE Accumulated(Tail(q), acc * Len(Digits) + DigitValue(Head(q)))

RECURSIVE SkipSpace(_)
\* std::stoi discards leading whitespace.
SkipSpace(q) == IF q # <<>> /\ Head(q) = " " THEN SkipSpace(Tail(q)) ELSE q

\* std::stoi(str): an optional sign, then the digits up to the first
\* character that is none; std::invalid_argument without a digit.
stoi(str) ==
    LET q      == SkipSpace(str)
        signed == q # <<>> /\ Head(q) \in {"-", "+"}
        digits == IF signed THEN Tail(q) ELSE q
        value  == Accumulated(digits, 0)
    IN  IF digits = <<>> \/ ~IsDigit(Head(digits))
        THEN [ok |-> FALSE, value |-> 0]
        ELSE [ok |-> TRUE,
              value |-> IF Head(q) = "-" THEN 0 - value ELSE value]

\* string.find(pattern): the positions the pattern occurs at.
Occurrences(string, pattern) ==
    {i \in 0..(Len(string) - Len(pattern)) :
        SubSeq(string, i + 1, i + Len(pattern)) = pattern}

\* intrinsic_find: the first position as a decimal string, or "".
intrinsic_find(string, pattern) ==
    LET hits == Occurrences(string, pattern)
    IN  IF hits = {} THEN <<>>
        ELSE to_string(CHOOSE i \in hits : \A j \in hits : i <= j)

\* The outcomes of intrinsic_slice: a string, a wpp::Exception with a
\* message, or the std::out_of_range of std::string::substr.
Sliced(value, begin, count) ==
    [kind |-> "value", value |-> value, msg |-> "", begin |-> begin, count |-> count]
SliceError(msg) ==
    [kind |-> "error", value |-> <<>>, msg |-> msg, begin |-> 0, count |-> 0]
OutOfRange(begin, count) ==
    [kind |-> "out_of_range", value |-> <<>>, msg |-> "", begin |-> begin, count |-> count]

\* string.substr(pos, count), pos and count converted to size_t: a negative
\* pos becomes larger than any size; throws when pos > size().
substr(string, pos, count) ==
    IF pos < 0 \/ pos > Len(string) THEN OutOfRange(pos, count)
    ELSE Sliced(SubSeq(string, pos + 1,
                       IF pos + count > Len(string) THEN Len(string) ELSE pos + count),
                pos, count)

\* begin of the slice
SliceBegin(len, start) == IF start < 0 THEN len + start ELSE start

\* count without the + 1 that makes the end inclusive.
SliceCountExclusive(len, begin, end) ==
    IF end < 0 THEN (len + end) - begin ELSE end - begin

\* count of the slice
SliceCount(len, begin, end) ==
    IF end < 0 THEN (len + end) - begin + 1 ELSE end - begin + 1

\* intrinsic_slice on the evaluated arguments.
intrinsic_slice(string, start_raw, end_raw) ==
    IF ~stoi(start_raw).ok \/ ~stoi(end_raw).ok
    THEN SliceError("slice range must be numerical.")
    ELSE LET start == stoi(start_raw).value
             end   == stoi(end_raw).value
             len   == Len(string)
             begin == SliceBegin(len, start)
             count == SliceCount(len, begin, end)
         IN  IF count <= 0
             THEN SliceError("end of slice cannot be before the start.")
             ELSE IF len < begin + count
             THEN SliceError("slice extends outside of string bounds.")
             ELSE IF start < 0 /\ end >= 0
             THEN SliceError("start cannot be negative where end is positive.")
             ELSE substr(string, begin, count)

-----------------------------------------------------------------------------
(* slice and find applied on their own to given strings and integers.     *)

\* The strings and the integers they are applied to.
Subjects == StringsOver(Letters, MaxLen)
Bounds == (0 - MaxLen - 2)..(MaxLen + 1)

\* No string intrinsic is applied on its own.
NoCall == [pc |-> "idle"]

Init ==
    /\ tree = <<>>
    /\ parsed = <<>>
    /\ functions = [k \in {} |-> <<>>]
    /\ scopes = <<>>
    /\ stack = <<>>
    /\ mode = "eval"
    /\ ret = ""
    /\ exc = NoExc
    /\ cwd = LaunchDir
    /\ out = ""
    /\ err = <<>>
    /\ rc = -1
    /\ runpc = "start"
    /\ rhsFirst \in BOOLEAN
    /\ hist = <<>>
    /\ call = NoCall

-----------------------------------------------------------------------------
(* wpp::run                                                                *)

\* read_file fails: "file not found", return 1.
RunFileNotFound ==
    /\ runpc = "start"
    /\ err' = Append(err, [kind |-> "error", pos |-> 0, msg |-> "file not found."])
    /\ rc' = 1
    /\ runpc' = "exit"
    /\ UNCHANGED <<tree, functions, scopes, stack, mode, ret, exc, cwd, out,
                   rhsFirst, call, parsed, hist>>

\* The file is read, the directory changed to the file's, the text parsed
\* and eval_ast(root, env) entered; a parse error is thrown to the catch.
RunStart ==
    /\ runpc = "start"
    /\ \E input \in Inputs :
         LET path == cwd \o PathOf(InputName)
             a == Allocate(input.doc, Len(tree))
         IN  /\ cwd' = parent_path(path)
             /\ runpc' = "eval"
             /\ IF input.ok
                THEN /\ tree' = tree \o a.nodes
                     /\ parsed' = parsed \o a.nodes
                     /\ stack' = <<Frame(a.root, Last(a.nodes), 0, scopes)>>
                     /\ mode' = "eval"
                     /\ UNCHANGED exc
                ELSE /\ exc' = [pos |-> 0, msg |-> "parse error"]
                     /\ mode' = "throw"
                     /\ UNCHANGED <<tree, parsed, stack>>
    /\ UNCHANGED <<functions, scopes, ret, out, err, rc, rhsFirst, call, hist>>

\* std::cout << eval_ast(root, env) << std::flush; return 0.
RunFinish ==
    /\ runpc = "eval"
    /\ stack = <<>>
    /\ mode = "ret"
    /\ out' = out \o ret
    /\ rc' = 0
    /\ runpc' = "exit"
    /\ UNCHANGED <<tree, functions, scopes, stack, mode, ret, exc, cwd, err,
                   rhsFirst, call, parsed, hist>>

\* catch (const wpp::Exception& e): wpp::error(e.pos, e.what()); return 1.
RunCatch ==
    /\ runpc = "eval"
    /\ stack = <<>>
    /\ mode = "throw"
    /\ err' = Append(err, [kind |-> "error", pos |-> exc.pos, msg |-> exc.msg])
    /\ rc' = 1
    /\ runpc' = "exit"
    /\ UNCHANGED <<tree, functions, scopes, stack, mode, ret, exc, cwd, out,
                   rhsFirst, call, parsed, hist>>

\* The activation is inside intrinsic_eval, called for the eval intrinsic or
\* for a Codeify node.
InEval(f) ==
    \/ f.nd.tag = "Codeify"
    \/ f.nd.tag = "Intrinsic" /\ f.nd.value = "eval"

\* The activation is inside the try block of intrinsic_eval.
InTry(f) == InEval(f) /\ f.pc = 2

\* An exception leaves an activation of eval_ast: its locals are destroyed,
\* env_args among them; only the try block of intrinsic_eval catches.
Unwind ==
    /\ runpc = "eval"
    /\ stack # <<>>
    /\ mode = "throw"
    /\ ~InTry(top)
    /\ stack' = Front(stack)
    /\ scopes' = IF top.env_args # 0 THEN Front(scopes) ELSE scopes
    /\ UNCHANGED <<tree, functions, mode, ret, exc, cwd, out, err, rc, runpc,
                   rhsFirst, call, parsed, hist>>

-----------------------------------------------------------------------------
(* eval_ast: one action per handler of the visitor.                       *)

Event(ev, node, name, arity, key, callee) ==
    [ev |-> ev, node |-> node, name |-> name, arity |-> arity,
     key |-> key, callee |-> callee]

\* functions.find(key) hit: emplace_back; miss: emplace(key, vector{node}).
Register(fns, key, node_id) ==
    IF key \in DOMAIN fns
    THEN [fns EXCEPT ![key] = Append(@, node_id)]
    ELSE Assign(fns, key, <<node_id>>)

\* [&] (const String& x)
EvalString ==
    /\ At("String")
    /\ Return(top.nd.value)
    /\ UNCHANGED <<tree, functions, scopes, cwd, out, err, rc, runpc,
                   rhsFirst, call, parsed, hist>>

\* [&] (const Concat& cat): eval_ast(lhs) + eval_ast(rhs), the two calls
\* in the order the build evaluates the operands of operator+.
EvalConcat ==
    /\ At("Concat")
    /\ LET first  == IF rhsFirst THEN rhs(top.nd) ELSE lhs(top.nd)
           second == IF rhsFirst THEN lhs(top.nd) ELSE rhs(top.nd)
       IN  \/ /\ mode = "eval"
              /\ Call([top EXCEPT !.pc = 1, !.evals = <<first>>], first, top.args)
           \/ /\ mode = "ret" /\ top.pc = 1
              /\ Call([top EXCEPT !.pc = 2, !.vals = <<ret>>,
                                  !.evals = Append(@, second)],
                      second, top.args)
           \/ /\ mode = "ret" /\ top.pc = 2
              /\ Return(IF rhsFirst THEN ret \o top.vals[1]
                                    ELSE top.vals[1] \o ret)
    /\ UNCHANGED <<tree, functions, scopes, cwd, out, err, rc, runpc,
                   rhsFirst, call, parsed, hist>>

\* str += eval_ast(node, env, args) for a statement.
BlockAppended(str, value) == str \o value

\* += in place of = for the trailing expression.
BlockAssignedAppending(str, value) == str \o value

\* str = eval_ast(expr, env, args) for the trailing expression.
BlockAssigned(str, value) == value

\* [&] (const Block& block): every statement, then the trailing expression,
\* whose value replaces what the statements produced.
EvalBlock ==
    /\ At("Block")
    /\ LET n == Len(top.nd.kids)
       IN  \/ /\ mode = "eval"
              /\ Call([top EXCEPT !.pc = 1, !.evals = <<top.nd.kids[1]>>],
                      top.nd.kids[1], top.args)
           \/ /\ mode = "ret" /\ top.pc < n
              /\ Call([top EXCEPT !.pc = @ + 1,
                                  !.str = BlockAppended(@, ret),
                                  !.evals = Append(@, top.nd.kids[top.pc + 1])],
                      top.nd.kids[top.pc + 1], top.args)
           \/ /\ mode = "ret" /\ top.pc = n
              /\ Return(BlockAssigned(top.str, ret))
    /\ UNCHANGED <<tree, functions, scopes, cwd, out, err, rc, runpc,
                   rhsFirst, call, parsed, hist>>

\* [&] (const Document& doc): the statements in order, concatenated.
EvalDocument ==
    /\ At("Document")
    /\ LET n == Len(top.nd.kids)
       IN  \/ /\ mode = "eval" /\ n = 0
              /\ Return("")
           \/ /\ mode = "eval" /\ n > 0
              /\ Call([top EXCEPT !.pc = 1], top.nd.kids[1], top.args)
           \/ /\ mode = "ret" /\ top.pc < n
              /\ Call([top EXCEPT !.pc = @ + 1, !.str = @ \o ret],
                      top.nd.kids[top.pc + 1], top.args)
           \/ /\ mode = "ret" /\ top.pc = n
              /\ Return(top.str \o ret)
    /\ UNCHANGED <<tree, functions, scopes, cwd, out, err, rc, runpc,
                   rhsFirst, call, parsed, hist>>

\* [&] (const Fn& func): register under cat(name, params.size()).
EvalFn ==
    /\ At("Fn")
    /\ LET name == top.nd.value
           key  == cat(name, Len(top.nd.params))
       IN  /\ err' = warn("WARN_FUNC_REDEFINED", key \in DOMAIN functions,
                          top.node, "function '" \o name \o "' redefined.")
           /\ functions' = Register(functions, key, top.node)
           /\ hist' = Append(hist, Event("define", top.node, name,
                                         Len(top.nd.params), key, 0))
    /\ Return("")
    /\ UNCHANGED <<tree, scopes, cwd, out, rc, runpc, rhsFirst, call, parsed>>

\* [&] (const Var& var): evaluate the body, replace it by a String of the
\* result, replace the Var by an Fn and register it.
EvalVar ==
    /\ At("Var")
    /\ \/ /\ mode = "eval"
          /\ Call([top EXCEPT !.pc = 1], body(top.nd), top.args)
          /\ hist' = Append(hist, Event("varbody", top.node, top.nd.value, 0, "", 0))
          /\ UNCHANGED <<tree, functions, err>>
       \/ /\ mode = "ret"
          /\ LET name      == top.nd.value
                 func_name == cat(name, 0)
                 b         == body(top.nd)
             IN  /\ tree' = [tree EXCEPT
                               ![b] = Node("String", ret, <<>>, <<>>),
                               ![top.node] = Node("Fn", func_name, <<>>, <<b>>)]
                 /\ err' = warn("WARN_VARFUNC_REDEFINED",
                                func_name \in DOMAIN functions, top.node,
                                "function/variable '" \o name \o "' redefined.")
                 /\ functions' = Register(functions, func_name, top.node)
                 /\ hist' = Append(hist, Event("define", top.node, name, 0,
                                               func_name, 0))
          /\ Return("")
    /\ UNCHANGED <<scopes, cwd, out, rc, runpc, rhsFirst, call, parsed>>

\* The Drop handler's update of the table for an existing key: pop the
\* vector when it is not empty, erase the key when it is.
DropKey(fns, key) ==
    IF fns[key] # <<>>
    THEN [fns EXCEPT ![key] = Front(@)]
    ELSE Erase(fns, key)

\* [&] (const Drop& drop)
EvalDrop ==
    /\ At("Drop")
    /\ LET func == tree[top.nd.kids[1]]
           caller_name == func.value
           n == Len(func.kids)
           caller_mangled_name == cat(caller_name, n)
       IN  IF func.tag # "FnInvoke"
           THEN /\ Throw(top.node, "invalid function passed to drop.")
                /\ UNCHANGED <<functions, hist>>
           ELSE IF caller_mangled_name \in DOMAIN functions
           THEN /\ functions' = DropKey(functions, caller_mangled_name)
                /\ hist' = Append(hist, Event("drop", top.node, caller_name, n,
                                              caller_mangled_name, 0))
                /\ Return("")
           ELSE /\ Throw(top.node, "cannot drop undefined function '"
                                   \o caller_name \o "' (" \o ToString(n)
                                   \o " parameters).")
                /\ UNCHANGED <<functions, hist>>
    /\ UNCHANGED <<tree, scopes, cwd, out, err, rc, runpc, rhsFirst, call, parsed>>

-----------------------------------------------------------------------------
(* FnInvoke                                                                *)

\* A parameter counts only while no function of that name is defined.
IsParameterUnlessFunction(sc, args, caller_name) ==
    /\ args # 0
    /\ caller_name \in DOMAIN sc[args]
    /\ cat(caller_name, 0) \notin DOMAIN functions

\* if (args) if (auto it = (*args).find(caller_name); it != (*args).end())
IsParameter(sc, args, caller_name) ==
    /\ args # 0
    /\ caller_name \in DOMAIN sc[args]

\* it->second.front() in place of back().
LookupFront(fns, key) ==
    IF key \notin DOMAIN fns THEN 0
    ELSE IF fns[key] = <<>> THEN 0
    ELSE Head(fns[key])

\* functions.find(key): 0 when the key is absent or its vector is empty,
\* it->second.back() otherwise.
Lookup(fns, key) ==
    IF key \notin DOMAIN fns THEN 0
    ELSE IF fns[key] = <<>> THEN 0
    ELSE Last(fns[key])

\* env_args starts empty whatever the caller's scope holds.
InheritNothing(sc, args) == EmptyMap

\* Arguments env_args; if (args) every entry of *args is emplaced into it.
InheritScope(sc, args) ==
    IF args = 0 THEN EmptyMap ELSE sc[args]

\* it->second = result / env_args.insert_or_assign(params[i], result)
Bind(sc, env_args, param, result) ==
    [sc EXCEPT ![env_args] = Assign(@, param, result)]

\* The loop over caller_args moves on from position f.i: the next argument
\* is evaluated in the caller's scope, or, after the last, the body of the
\* callee is evaluated under env_args.
NextArgument(f, sc) ==
    IF f.i < Len(f.nd.kids)
    THEN CallIn([f EXCEPT !.pc = 1, !.i = @ + 1, !.evals = Append(@, f.i + 1)],
                f.nd.kids[f.i + 1], tree[f.nd.kids[f.i + 1]], f.args, sc)
    ELSE CallIn([f EXCEPT !.pc = 3],
                f.func.body, tree[f.func.body], f.env_args, sc)

\* What a read of a string outside a vector's elements can yield, when the
\* read does not crash.
Garbage == {""}

\* params[i] for the argument at position f.i: the parameter's name, or,
\* past the end of params, whatever the read yields.
ParamAt(f) ==
    IF f.i <= Len(f.func.params) THEN {f.func.params[f.i]} ELSE Garbage

\* params[i] is read past the end of params (undefined behaviour) and the
\* process crashes: run never returns.
ParamsOutOfBounds ==
    /\ At("FnInvoke")
    /\ mode = "ret" /\ top.pc \in {1, 2}
    /\ top.i > Len(top.func.params)
    /\ runpc' = "crash"
    /\ UNCHANGED <<tree, functions, scopes, stack, mode, ret, exc, cwd, out,
                   err, rc, rhsFirst, call, parsed, hist>>

\* [&] (const FnInvoke& call)
EvalFnInvoke ==
    /\ At("FnInvoke")
    /\ LET caller_name == top.nd.value
           caller_args == top.nd.kids
           n == Len(caller_args)
           caller_mangled_name == cat(caller_name, n)
           found == Lookup(functions, caller_mangled_name)
       IN  \/ \* the name is a parameter
              /\ mode = "eval"
              /\ IsParameter(scopes, top.args, caller_name)
              /\ IF n > 0
                 THEN /\ Throw(top.node, "calling argument '" \o caller_name
                                         \o "' as if it were a function.")
                      /\ UNCHANGED err
                 ELSE /\ Return(scopes[top.args][caller_name])
                      /\ err' = warn("WARN_PARAM_SHADOW_FUNC",
                                     cat(caller_name, 0) \in DOMAIN functions,
                                     top.node, "parameter " \o caller_name
                                     \o " is shadowing a function.")
              /\ UNCHANGED <<scopes, hist>>
           \/ \* not a parameter, and no function
              /\ mode = "eval"
              /\ ~IsParameter(scopes, top.args, caller_name)
              /\ found = 0
              /\ Throw(top.node, "func not found: " \o caller_name \o ".")
              /\ hist' = Append(hist, Event("resolve", top.node, caller_name, n,
                                            caller_mangled_name, 0))
              /\ UNCHANGED <<scopes, err>>
           \/ \* the function is copied, env_args set up, the loop entered
              /\ mode = "eval"
              /\ ~IsParameter(scopes, top.args, caller_name)
              /\ found # 0
              /\ LET fn   == tree[found]
                     func == [node |-> found, callee_name |-> fn.value,
                              params |-> fn.params, body |-> body(fn)]
                     sc   == Append(scopes, InheritScope(scopes, top.args))
                     f    == [top EXCEPT !.func = func, !.env_args = Len(sc)]
                 IN  /\ scopes' = sc
                     /\ NextArgument(f, sc)
              /\ hist' = Append(hist, Event("resolve", top.node, caller_name, n,
                                            caller_mangled_name, found))
              /\ UNCHANGED err
           \/ \* result = eval_ast(caller_args[i]) has returned
              /\ mode = "ret" /\ top.pc = 1
              /\ \E param \in ParamAt(top) :
                     IF param \in DOMAIN scopes[top.env_args]
                     THEN /\ err' = warn("WARN_PARAM_SHADOW_PARAM", TRUE,
                                         top.func.node, "parameter '" \o param
                                         \o "' inside function '"
                                         \o top.func.callee_name
                                         \o "' shadows parameter from parent scope.")
                          /\ scopes' = Bind(scopes, top.env_args, param, ret)
                          /\ NextArgument(top, scopes')
                     ELSE /\ Call([top EXCEPT !.pc = 2, !.evals = Append(@, top.i)],
                                  caller_args[top.i], top.args)
                          /\ UNCHANGED <<scopes, err>>
              /\ UNCHANGED hist
           \/ \* the eval_ast(caller_args[i]) inside insert_or_assign has returned
              /\ mode = "ret" /\ top.pc = 2
              /\ \E param \in ParamAt(top) :
                    scopes' = Bind(scopes, top.env_args, param, ret)
              /\ NextArgument(top, scopes')
              /\ UNCHANGED <<err, hist>>
           \/ \* str = eval_ast(body, env, &env_args) has returned
              /\ mode = "ret" /\ top.pc = 3
              /\ Return(ret)
              /\ scopes' = Front(scopes)
              /\ UNCHANGED <<err, hist>>
    /\ UNCHANGED <<tree, functions, cwd, out, rc, runpc, rhsFirst, call, parsed>>

-----------------------------------------------------------------------------
(* Intrinsics                                                              *)

\* intrinsic_arg_n
intrinsic_arg_n(type) ==
    CASE type = "slice"  -> 3
      [] type = "find"   -> 2
      [] type = "assert" -> 2
      [] type = "pipe"   -> 2
      [] type \in {"error", "file", "escape", "eval", "run", "source",
                   "length", "log"} -> 1
      [] OTHER -> 0

\* [&] (const Intrinsic& fn): the argument count is checked, and the
\* intrinsic dispatched to starts by evaluating exprs[0].
EvalIntrinsic ==
    /\ At("Intrinsic")
    /\ mode = "eval"
    /\ LET n_args == intrinsic_arg_n(top.nd.value)
       IN  IF n_args # Len(top.nd.kids)
           THEN Throw(top.node, top.nd.value \o " takes exactly "
                                \o ToString(n_args) \o " arguments.")
           ELSE Call([top EXCEPT !.pc = 1], top.nd.kids[1], top.args)
    /\ UNCHANGED <<tree, functions, scopes, cwd, out, err, rc, runpc,
                   rhsFirst, call, parsed, hist>>

\* intrinsic_log: std::cerr << eval_ast(expr); return "".
IntrinsicLog ==
    /\ At("Intrinsic")
    /\ mode = "ret"
    /\ top.nd.value = "log"
    /\ err' = Append(err, [kind |-> "log", pos |-> top.node, msg |-> ret])
    /\ Return("")
    /\ UNCHANGED <<tree, functions, scopes, cwd, out, rc, runpc, rhsFirst, call,
                   parsed, hist>>

\* intrinsic_error: throw wpp::Exception{pos, eval_ast(expr)}.
IntrinsicError ==
    /\ At("Intrinsic")
    /\ mode = "ret"
    /\ top.nd.value = "error"
    /\ Throw(top.node, ret)
    /\ UNCHANGED <<tree, functions, scopes, cwd, out, err, rc, runpc,
                   rhsFirst, call, parsed, hist>>

\* intrinsic_source
IntrinsicSource ==
    /\ At("Intrinsic")
    /\ mode = "ret"
    /\ top.nd.value = "source"
    /\ \/ \* fname has been evaluated: read, parse, change directory, evaluate
          /\ top.pc = 1
          /\ LET fname    == ret
                 old_path == cwd
                 new_path == old_path \o PathOf(fname)
             IN  IF cwd \o PathOf(fname) \notin DOMAIN Files
                 THEN /\ Throw(top.node, "file '" \o fname \o "' not found.")
                      /\ UNCHANGED <<tree, parsed, cwd>>
                 ELSE LET file == Files[cwd \o PathOf(fname)]
                          a    == Allocate(file.doc, Len(tree))
                      IN  IF ~file.ok
                          THEN /\ Throw(0, "parse error")
                               /\ UNCHANGED <<tree, parsed, cwd>>
                          ELSE /\ tree' = tree \o a.nodes
                               /\ parsed' = parsed \o a.nodes
                               /\ cwd' = parent_path(new_path)
                               /\ CallIn([top EXCEPT !.pc = 2,
                                                     !.old_path = old_path],
                                         a.root, Last(a.nodes), top.args, scopes)
       \/ \* the included document has been evaluated: restore, return
          /\ top.pc = 2
          /\ cwd' = top.old_path
          /\ Return(ret)
          /\ UNCHANGED <<tree, parsed>>
    /\ UNCHANGED <<functions, scopes, out, err, rc, runpc, rhsFirst, call, hist>>

\* [&] (const Codeify& colby): intrinsic_eval starts by evaluating expr.
EvalCodeify ==
    /\ At("Codeify")
    /\ mode = "eval"
    /\ Call([top EXCEPT !.pc = 1], top.nd.kids[1], top.args)
    /\ UNCHANGED <<tree, functions, scopes, cwd, out, err, rc, runpc,
                   rhsFirst, call, parsed, hist>>

\* intrinsic_eval after const auto code = eval_ast(expr, env, args).
IntrinsicEval ==
    /\ runpc = "eval" /\ stack # <<>>
    /\ mode = "ret"
    /\ InEval(top)
    /\ \/ \* try { root = document(lex, tree); ... eval_ast(root, env, args)
          /\ top.pc = 1
          /\ LET code == ret
                 file == Texts[code]
                 a    == Allocate(file.doc, Len(tree))
             IN  IF ~file.ok
                 THEN /\ exc' = [pos |-> 0, msg |-> "parse error"]
                      /\ mode' = "throw"
                      /\ stack' = [stack EXCEPT ![Len(stack)].pc = 2]
                      /\ UNCHANGED <<tree, parsed, ret>>
                 ELSE /\ tree' = tree \o a.nodes
                      /\ parsed' = parsed \o a.nodes
                      /\ CallIn([top EXCEPT !.pc = 2], a.root, Last(a.nodes),
                                top.args, scopes)
       \/ \* return wpp::eval_ast(root, env, args);
          /\ top.pc = 2
          /\ Return(ret)
          /\ UNCHANGED <<tree, parsed>>
    /\ UNCHANGED <<functions, scopes, cwd, out, err, rc, runpc, rhsFirst, call, hist>>

\* catch (const wpp::Exception& e) of intrinsic_eval:
\* throw wpp::Exception{pos, "inside eval: ", e.what()}.
EvalCatch ==
    /\ runpc = "eval" /\ stack # <<>>
    /\ mode = "throw"
    /\ InTry(top)
    /\ exc' = [pos |-> top.node, msg |-> "inside eval: " \o exc.msg]
    /\ stack' = [stack EXCEPT ![Len(stack)] = [top EXCEPT !.pc = 3, !.str = exc.msg]]
    /\ UNCHANGED <<tree, functions, scopes, mode, ret, cwd, out, err, rc, runpc,
                   rhsFirst, call, parsed, hist>>

\* intrinsic_slice: the three arguments are evaluated in order, then the
\* slice is taken.  The std::out_of_range of substr is no wpp::Exception:
\* no handler catches it and std::terminate ends the process.
IntrinsicSlice ==
    /\ At("Intrinsic")
    /\ mode = "ret"
    /\ top.nd.value = "slice"
    /\ LET f == [top EXCEPT !.vals = Append(@, ret)]
       IN  IF top.pc < Len(top.nd.kids)
           THEN /\ Call([f EXCEPT !.pc = @ + 1], top.nd.kids[top.pc + 1], top.args)
                /\ UNCHANGED runpc
           ELSE LET r == intrinsic_slice(Chars(f.vals[1]), Chars(f.vals[2]),
                                         Chars(f.vals[3]))
                IN  CASE r.kind = "value" ->
                           Return(Str(r.value)) /\ UNCHANGED runpc
                      [] r.kind = "error" ->
                           Throw(top.node, r.msg) /\ UNCHANGED runpc
                      [] OTHER ->
                           /\ runpc' = "terminate"
                           /\ UNCHANGED <<stack, mode, ret, exc>>
    /\ UNCHANGED <<tree, functions, scopes, cwd, out, err, rc, rhsFirst, call,
                   parsed, hist>>

-----------------------------------------------------------------------------
(* Map                                                                     *)

\* What std::find_if and the code after it do once pattern i of n has been
\* compared: the hand of the arm on a match, else the next pattern, else the
\* default arm.
AfterPatternEager(i, n, matched) ==
    IF i < n THEN "pattern"
    ELSE IF matched THEN "hand"
    ELSE "default"

AfterPattern(i, n, matched) ==
    IF matched THEN "hand"
    ELSE IF i < n THEN "pattern"
    ELSE "default"

\* [&] (const Map& map)
EvalMap ==
    /\ At("Map")
    /\ LET n == n_cases(top.nd)
           f == [top EXCEPT !.vals = Append(@, ret)]
           \* if (default_case == wpp::NODE_EMPTY) throw, else evaluate it
           Default(g) ==
               IF default_case(g.nd) = NODE_EMPTY
               THEN /\ exc' = [pos |-> g.node, msg |-> "no matches found."]
                    /\ mode' = "throw"
                    /\ stack' = [stack EXCEPT ![Len(stack)] = g]
                    /\ UNCHANGED ret
               ELSE Call([g EXCEPT !.pc = 3,
                                   !.evals = Append(@, default_case(g.nd))],
                         default_case(g.nd), g.args)
           Pattern(g, i) ==
               Call([g EXCEPT !.pc = 2, !.i = i,
                              !.evals = Append(@, case_first(g.nd, i))],
                    case_first(g.nd, i), g.args)
       IN  \/ /\ mode = "eval"
              /\ Call([top EXCEPT !.pc = 1, !.evals = <<test(top.nd)>>],
                      test(top.nd), top.args)
           \/ \* test_str is known: std::find_if starts
              /\ mode = "ret" /\ top.pc = 1
              /\ IF n > 0 THEN Pattern(f, 1) ELSE Default(f)
           \/ \* pattern i has been evaluated and is compared with test_str
              /\ mode = "ret" /\ top.pc = 2
              /\ LET next == AfterPattern(top.i, n, top.vals[1] = ret)
                 IN  CASE next = "hand" ->
                            Call([f EXCEPT !.pc = 3,
                                           !.evals = Append(@, case_second(f.nd, f.i))],
                                 case_second(f.nd, f.i), f.args)
                       [] next = "pattern" -> Pattern(f, f.i + 1)
                       [] OTHER -> Default(f)
           \/ \* the hand, or the default arm, has been evaluated
              /\ mode = "ret" /\ top.pc = 3
              /\ Return(ret)
    /\ UNCHANGED <<tree, functions, scopes, cwd, out, err, rc, runpc,
                   rhsFirst, call, parsed, hist>>

-----------------------------------------------------------------------------
(* Pre                                                                     *)

\* func->identifier = name + func->identifier
Renamed(name, identifier) == name \o identifier

\* pre->exprs.insert(pre->exprs.end(), exprs.begin(), exprs.end())
Extended(inner, exprs) == inner \o exprs

\* for (const wpp::node_t stmt: stmts): the loop of frame f is at statement
\* f.i, or past the last one.  The arena is read as it is now.
PreStatement(f) ==
    LET exprs == tree[f.node].params
        sts   == tree[f.node].kids
    IN  IF f.i > Len(sts)
        THEN Return(f.str) /\ UNCHANGED tree
        ELSE LET stmt == sts[f.i]
             IN  CASE tree[stmt].tag = "Fn" /\ exprs # <<>> ->
                        \* exprs.rbegin()
                        /\ Call([f EXCEPT !.pc = 1, !.vals = <<>>],
                                exprs[Len(exprs)], f.args)
                        /\ UNCHANGED tree
                   [] tree[stmt].tag = "Fn" /\ exprs = <<>> ->
                        /\ tree' = [tree EXCEPT ![stmt].value = Renamed("", @)]
                        /\ CallIn([f EXCEPT !.pc = 2], stmt, tree'[stmt],
                                  f.args, scopes)
                   [] tree[stmt].tag = "Pre" ->
                        /\ tree' = [tree EXCEPT ![stmt].params = Extended(@, exprs)]
                        /\ CallIn([f EXCEPT !.pc = 2], stmt, tree'[stmt],
                                  f.args, scopes)
                   [] OTHER ->
                        /\ Call([f EXCEPT !.pc = 2], stmt, f.args)
                        /\ UNCHANGED tree

\* [&] (const Pre& pre)
EvalPre ==
    /\ At("Pre")
    /\ \/ /\ mode = "eval"
          /\ PreStatement([top EXCEPT !.i = 1])
       \/ \* a prefix expression returned: name += eval_ast(*it, env, args)
          /\ mode = "ret" /\ top.pc = 1
          /\ LET f     == [top EXCEPT !.vals = Append(@, ret)]
                 exprs == tree[top.node].params
                 stmt  == tree[top.node].kids[top.i]
                 left  == Len(exprs) - Len(f.vals)
             IN  IF left > 0
                 THEN Call(f, exprs[left], f.args) /\ UNCHANGED tree
                 ELSE /\ tree' = [tree EXCEPT
                                    ![stmt].value = Renamed(Joined(f.vals), @)]
                      /\ CallIn([f EXCEPT !.pc = 2], stmt, tree'[stmt],
                                f.args, scopes)
       \/ \* a statement returned: str += eval_ast(stmt, env, args)
          /\ mode = "ret" /\ top.pc = 2
          /\ PreStatement([top EXCEPT !.str = @ \o ret, !.i = @ + 1])
    /\ UNCHANGED <<functions, scopes, cwd, out, err, rc, runpc, rhsFirst, call,
                   parsed, hist>>

-----------------------------------------------------------------------------

Next ==
    \/ RunFileNotFound
    \/ RunStart
    \/ RunFinish
    \/ RunCatch
    \/ Unwind
    \/ EvalString
    \/ EvalConcat
    \/ EvalBlock
    \/ EvalDocument
    \/ EvalFn
    \/ EvalVar
    \/ EvalDrop
    \/ EvalFnInvoke
    \/ EvalIntrinsic
    \/ IntrinsicLog
    \/ IntrinsicError
    \/ IntrinsicSource
    \/ ParamsOutOfBounds
    \/ IntrinsicSlice
    \/ EvalCodeify
    \/ IntrinsicEval
    \/ EvalCatch
    \/ EvalMap
    \/ EvalPre

Spec == Init /\ [][Next]_vars

-----------------------------------------------------------------------------
(* slice and find on their own                                             *)

\* The state of the evaluator and of the driver.
run == <<tree, functions, scopes, stack, mode, ret, exc, cwd, out, err, rc,
         runpc, rhsFirst, parsed, hist>>

\* A string and a pattern are given; nothing has been applied to them yet.
Given(string, pattern) ==
    [pc |-> "given", string |-> string, pattern |-> pattern,
     start |-> 0, end |-> 0, found |-> <<>>, result |-> SliceError("")]

StrInit ==
    /\ tree = <<>>
    /\ parsed = <<>>
    /\ functions = [k \in {} |-> <<>>]
    /\ scopes = <<>>
    /\ stack = <<>>
    /\ mode = "eval"
    /\ ret = ""
    /\ exc = NoExc
    /\ cwd = LaunchDir
    /\ out = ""
    /\ err = <<>>
    /\ rc = -1
    /\ runpc = "start"
    /\ rhsFirst = FALSE
    /\ hist = <<>>
    /\ call \in {Given(s, p) : s \in Subjects, p \in Subjects}

\* slice(string, start, end) for integers written in decimal.
ApplySlice ==
    /\ call.pc = "given"
    /\ \E start \in Bounds, end \in Bounds :
          call' = [call EXCEPT
                     !.pc = "sliced", !.start = start, !.end = end,
                     !.result = intrinsic_slice(call.string, to_string(start),
                                                to_string(end))]
    /\ UNCHANGED run

\* find(string, pattern)
ApplyFind ==
    /\ call.pc = "given"
    /\ call' = [call EXCEPT
                  !.pc = "found",
                  !.found = intrinsic_find(call.string, call.pattern)]
    /\ UNCHANGED run

\* slice(string, i, i + |pattern| - 1) for the i that find returned.
ApplySliceAtFound ==
    /\ call.pc = "found"
    /\ call.found # <<>>
    /\ LET i == stoi(call.found).value
           j == i + Len(call.pattern) - 1
       IN  call' = [call EXCEPT
                      !.pc = "checked", !.start = i, !.end = j,
                      !.result = intrinsic_slice(call.string, call.found,
                                                 to_string(j))]
    /\ UNCHANGED run

StrNext ==
    \/ ApplySlice
    \/ ApplyFind
    \/ ApplySliceAtFound

SpecStr == StrInit /\ [][StrNext]_vars

\* The control variables stay within their ranges.
TypeOK ==
    /\ rc \in {-1, 0, 1}
    /\ runpc \in {"start", "eval", "exit", "crash", "terminate"}
    /\ mode \in {"eval", "ret", "throw"}

-----------------------------------------------------------------------------
(* Properties.                                                             *)

Frames == 1..Len(stack)
Events == 1..Len(hist)

\* The (name, arity) pairs that were defined or dropped.
Pairs ==
    {<<hist[i].name, hist[i].arity>> : i \in {j \in Events : hist[j].ev \in {"define", "drop"}}}

\* Events of kind ev on (n, k) among the first m events.
Count(ev, n, k, m) ==
    Cardinality({i \in 1..m : hist[i].ev = ev /\ hist[i].name = n /\ hist[i].arity = k})

\* Height of the stack the table holds for (n, k); 0 when the key is absent.
Height(n, k) ==
    IF cat(n, k) \in DOMAIN functions THEN Len(functions[cat(n, k)]) ELSE 0

\* C1: every key present in the function table maps to a non-empty stack.
C1_NoEmptyStack ==
    \A key \in DOMAIN functions : functions[key] # <<>>

\* C2: for every (n, k) the stack height equals definitions minus completed
\* drops, and completed drops never outnumber definitions.
C2_HeightIsDefinesMinusDrops ==
    \A p \in Pairs :
        LET defines == Count("define", p[1], p[2], Len(hist))
            drops   == Count("drop", p[1], p[2], Len(hist))
        IN  /\ drops <= defines
            /\ Height(p[1], p[2]) = defines - drops

\* C3: when the body of the callee is evaluated, the invocation has
\* evaluated each argument expression exactly once, left to right.
C3_ArgumentsEvaluatedOnce ==
    \A j \in Frames :
        (stack[j].nd.tag = "FnInvoke" /\ stack[j].pc = 3)
            => stack[j].evals = [i \in 1..Len(stack[j].nd.kids) |-> i]

\* C4: a node parsed as Var n is, once evaluated, an Fn with identifier n and
\* no parameters whose body is a String, and every evaluation of the node
\* registers it under the key of (n, 0).
C4_VarBecomesFnOfItsName ==
    /\ \A id \in 1..Len(tree) :
         (parsed[id].tag = "Var" /\ tree[id].tag = "Fn")
            => /\ tree[id].value = parsed[id].value
               /\ tree[id].params = <<>>
               /\ tree[body(tree[id])].tag = "String"
    /\ \A i \in Events :
         (hist[i].ev = "define" /\ parsed[hist[i].node].tag = "Var")
            => hist[i].key = cat(parsed[hist[i].node].value, 0)

\* C5: the body of a Var node is evaluated at most once over the whole run.
C5_VarBodyEvaluatedOnce ==
    \A i, j \in Events :
        (hist[i].ev = "varbody" /\ hist[j].ev = "varbody"
         /\ hist[i].node = hist[j].node) => i = j

\* C6: no evaluation of a Concat evaluates its right operand before its
\* left operand.
C6_ConcatLeftFirst ==
    \A j \in Frames :
        (stack[j].nd.tag = "Concat" /\ stack[j].evals # <<>>)
            => stack[j].evals[1] = lhs(stack[j].nd)

\* The directory wpp::run changes to before it evaluates.
RunDir == parent_path(LaunchDir \o PathOf(InputName))

\* C7: once no source intrinsic is evaluating an included document any
\* more, by return or by failure, the current directory is the one that
\* held before the call.
C7_SourceRestoresDirectory ==
    ((runpc = "eval" \/ rc = 0 \/ exc # NoExc)
     /\ \A j \in Frames : ~(stack[j].nd.tag = "Intrinsic"
                            /\ stack[j].nd.value = "source"
                            /\ stack[j].pc = 2))
        => cwd = RunDir

\* The bindings of (n, k) that are live after the first m events, oldest
\* first: a definition pushes its node, a completed drop pops the newest.
RECURSIVE Live(_, _, _)
Live(n, k, m) ==
    IF m = 0 THEN <<>>
    ELSE LET s == Live(n, k, m - 1)
             e == hist[m]
         IN  IF e.name # n \/ e.arity # k THEN s
             ELSE IF e.ev = "define" THEN Append(s, e.node)
             ELSE IF e.ev = "drop" /\ s # <<>> THEN Front(s)
             ELSE s

\* C8: an invocation that reaches the function table resolves to the most
\* recently defined binding of (n, k) that has not been dropped and runs
\* its body, and fails with "func not found" when there is none.
C8_ResolvesNewestLiveBinding ==
    /\ \A i \in Events :
         hist[i].ev = "resolve"
            => LET s == Live(hist[i].name, hist[i].arity, i - 1)
               IN  hist[i].callee = IF s = <<>> THEN 0 ELSE Last(s)
    /\ \A j \in Frames :
         (stack[j].nd.tag = "FnInvoke" /\ stack[j].pc = 3 /\ j < Len(stack))
            => /\ stack[j + 1].node = body(tree[stack[j].func.node])
               /\ \E i \in Events : /\ hist[i].ev = "resolve"
                                    /\ hist[i].node = stack[j].node
                                    /\ hist[i].callee = stack[j].func.node
    /\ (/\ mode = "throw" /\ stack # <<>>
        /\ top.nd.tag = "FnInvoke" /\ top.pc = 0
        /\ ~(top.args # 0 /\ top.nd.value \in DOMAIN scopes[top.args]))
          => /\ exc.msg = "func not found: " \o top.nd.value \o "."
             /\ Live(top.nd.value, Len(top.nd.kids), Len(hist)) = <<>>

\* d1 and then d2 were defined on one key, the key was dropped once, and a
\* later invocation resolved to d1.
C8_Witness ==
    \E i, j, k, l \in Events :
        /\ i < j /\ j < k /\ k < l
        /\ hist[i].ev = "define" /\ hist[j].ev = "define"
        /\ hist[k].ev = "drop" /\ hist[l].ev = "resolve"
        /\ hist[i].node # hist[j].node
        /\ \A m \in {j, k, l} : /\ hist[m].name = hist[i].name
                                /\ hist[m].arity = hist[i].arity
        /\ hist[l].callee = hist[i].node

\* C9: an invocation of a name the argument scope binds returns the
\* scope's value when it has no argument expressions and fails with
\* "calling argument ... as if it were a function" when it has some; either
\* way the function table is neither consulted nor modified.  The table is
\* consulted only when the scope does not bind the name.
C9_ParameterBeforeTable ==
    [][ (runpc = "eval" /\ stack # <<>> /\ mode = "eval"
         /\ top.nd.tag = "FnInvoke")
        => LET name  == top.nd.value
               n     == Len(top.nd.kids)
               bound == top.args # 0 /\ name \in DOMAIN scopes[top.args]
           IN  IF bound
               THEN /\ functions' = functions
                    /\ hist' = hist
                    /\ IF n = 0
                       THEN /\ mode' = "ret"
                            /\ ret' = scopes[top.args][name]
                            /\ stack' = Front(stack)
                       ELSE /\ mode' = "throw"
                            /\ exc'.msg = "calling argument '" \o name
                                          \o "' as if it were a function."
               ELSE /\ Len(hist') = Len(hist) + 1
                    /\ Last(hist').ev = "resolve"
                    /\ functions' = functions
      ]_vars

\* A parameter p was invoked and returned its value while a function p of
\* no parameters is defined.
C9_Witness ==
    /\ mode = "ret"
    /\ ret = "v"
    /\ err # <<>>
    /\ Last(err).msg = "parameter p is shadowing a function."
    /\ "p0" \in DOMAIN functions

\* C10: the scope of a callee is the caller's scope overwritten with the
\* callee's parameters, and no activation ever finds the scope it was
\* entered with changed, whatever was called from it.
C10_ScopesAreCopies ==
    \A j \in Frames :
        LET f == stack[j]
        IN  /\ f.args # 0 => scopes[f.args] = f.snap
            /\ (f.nd.tag = "FnInvoke" /\ f.pc = 3)
                 => LET callee == scopes[f.env_args]
                        caller == IF f.args = 0 THEN EmptyMap ELSE scopes[f.args]
                        ps     == UNION {ParamAt([f EXCEPT !.i = i]) :
                                            i \in 1..Len(f.nd.kids)}
                    IN  /\ DOMAIN callee = DOMAIN caller \cup ps
                        /\ \A name \in DOMAIN caller \ ps :
                             callee[name] = caller[name]

\* The body of a function called from inside another function's body has
\* returned: its scope held an inherited binding besides its own parameter.
C10_Witness ==
    /\ stack # <<>>
    /\ mode = "ret"
    /\ top.nd.tag = "FnInvoke"
    /\ top.pc = 3
    /\ top.args # 0
    /\ DOMAIN scopes[top.env_args] = {"p", "r"}
    /\ scopes[top.args] = ("p" :> "v")


-----------------------------------------------------------------------------
\* The evaluations of Map nodes that are in progress.
MapFrames == {i \in 1..Len(stack) : stack[i].nd.tag = "Map"}

\* The arms of the Map of frame f whose pattern has been evaluated and equals
\* the test string.
Matches(f) ==
    {j \in 1..n_cases(f.nd) : Len(f.vals) >= j + 1 /\ f.vals[j + 1] = f.vals[1]}

\* The children frame f has evaluated, as a set.
Evaluated(f) == {f.evals[j] : j \in 1..Len(f.evals)}

\* C11: evaluating a Map evaluates the test exactly once and first, then the
\* patterns in declared order up to the first one equal to the test string;
\* no pattern after the first match is evaluated, the only hand evaluated is
\* that of the first matching arm, the default arm is evaluated only when
\* every pattern was evaluated and none matched, and with no match and no
\* default arm the evaluation fails with "no matches found.".
C11_MapStopsAtFirstMatch ==
    \A i \in MapFrames :
        LET f == stack[i]
            n == n_cases(f.nd)
            E == f.evals
        IN  /\ f.pc >= 1 =>
                /\ E[1] = test(f.nd)
                /\ \A j \in 2..Len(E) : E[j] # test(f.nd)
            /\ \A j \in 2..Len(E) :
                \/ j - 1 <= n /\ E[j] = case_first(f.nd, j - 1)
                \/ /\ j = Len(E)
                   /\ \/ \E a \in 1..n : E[j] = case_second(f.nd, a)
                      \/ E[j] = default_case(f.nd)
            /\ \A a \in 1..n :
                /\ a \in Matches(f) =>
                      \A b \in (a + 1)..n : case_first(f.nd, b) \notin Evaluated(f)
                /\ case_second(f.nd, a) \in Evaluated(f) =>
                      /\ a \in Matches(f)
                      /\ \A b \in 1..(a - 1) : b \notin Matches(f)
            /\ (default_case(f.nd) # NODE_EMPTY /\ default_case(f.nd) \in Evaluated(f)) =>
                  Len(f.vals) = n + 1 /\ Matches(f) = {}
            /\ (Len(f.vals) = n + 1 /\ Matches(f) = {} /\ default_case(f.nd) = NODE_EMPTY) =>
                  /\ i = Len(stack)
                  /\ mode = "throw"
                  /\ exc = [pos |-> f.node, msg |-> "no matches found."]
            /\ (i = Len(stack) /\ mode = "throw" /\ exc.pos = f.node) =>
                  /\ Len(f.vals) = n + 1
                  /\ Matches(f) = {}
                  /\ default_case(f.nd) = NODE_EMPTY

\* A Map whose second and third patterns both equal the test string has
\* evaluated the test, two patterns and the second hand, and nothing else.
C11_Witness ==
    \E i \in MapFrames :
        LET f == stack[i]
        IN  /\ n_cases(f.nd) = 3
            /\ Len(f.vals) = 3
            /\ Matches(f) = {2}
            /\ f.evals = <<test(f.nd), case_first(f.nd, 1), case_first(f.nd, 2),
                           case_second(f.nd, 2)>>
            /\ f.pc = 3 /\ mode = "ret"


-----------------------------------------------------------------------------
\* The Pre nodes of the documents as parsed, and the Pre that has node n
\* among its statements (none or one).
Pres == {p \in 1..Len(parsed) : parsed[p].tag = "Pre"}
Outer(n) == {p \in Pres : \E j \in 1..Len(parsed[p].kids) : parsed[p].kids[j] = n}

RECURSIVE Prefixes(_)
\* The prefix list Pre p is evaluated with: its own expressions, then those
\* its enclosing Pre appended.
Prefixes(p) ==
    parsed[p].params
    \o (IF Outer(p) = {} THEN <<>> ELSE Prefixes(CHOOSE o \in Outer(p) : TRUE))

RECURSIVE PrefixString(_)
\* The values of the (literal) prefix expressions q, last to first.
PrefixString(q) ==
    IF q = <<>> THEN "" ELSE parsed[Last(q)].value \o PrefixString(Front(q))

\* The definitions of functions that are statements of a Pre.
PreDefines ==
    {e \in Events : /\ hist[e].ev = "define"
                    /\ hist[e].node <= Len(parsed)
                    /\ parsed[hist[e].node].tag = "Fn"
                    /\ Outer(hist[e].node) # {}}

\* C12: a function g defined inside a Pre is registered under the prefix
\* expressions evaluated in reverse order, concatenated, followed by g's
\* original identifier, with g's own arity: p+q+g for [q] nested in [p].
C12_PreRegistersPrefixedName ==
    \A e \in PreDefines :
        LET g == hist[e].node
            p == CHOOSE o \in Outer(g) : TRUE
        IN  hist[e].key = cat(PrefixString(Prefixes(p)) \o parsed[g].value,
                              Len(parsed[g].params))

\* C18: evaluating the same Pre again defines the same keys, and leaves the
\* prefix list of a nested Pre as long as the first evaluation made it.
C18_PreReevaluationIsStable ==
    /\ \A a, b \in PreDefines :
          hist[a].node = hist[b].node => hist[a].key = hist[b].key
    /\ \A q \in Pres :
          (Outer(q) # {} /\ q <= Len(tree)) =>
              Len(tree[q].params) <= Len(Prefixes(q))


-----------------------------------------------------------------------------
\* The evaluations of Block nodes that are in progress.
BlockFrames == {i \in Frames : stack[i].nd.tag = "Block"}

\* C13: a Block evaluates its statements in declared order and then its
\* trailing expression, and returns exactly the value of the trailing
\* expression: nothing a statement produced is part of the result.
C13_BlockReturnsTrailingValue ==
    /\ [](\A i \in BlockFrames :
            LET f == stack[i]
            IN  /\ f.evals = SubSeq(f.nd.kids, 1, Len(f.evals))
                /\ (runpc = "eval" /\ mode = "eval" /\ i = Len(stack))
                   \/ Len(f.evals) = f.pc)
    /\ [][ (runpc = "eval" /\ stack # <<>> /\ mode = "ret"
            /\ top.nd.tag = "Block" /\ top.pc = Len(top.nd.kids))
           => /\ top.evals = top.nd.kids
              /\ stack' = Front(stack)
              /\ mode' = "ret"
              /\ ret' = ret
         ]_vars

\* The block { "s"  let h() "1"  h() } has returned "1" to the document: h
\* was defined before the trailing h() was resolved, and "s" is not in the
\* result.
C13_Witness ==
    /\ runpc = "eval" /\ mode = "ret" /\ stack # <<>>
    /\ top.nd.tag = "Document" /\ top.pc >= 1
    /\ tree[top.nd.kids[top.pc]].tag = "Block"
    /\ ret = "1"
    /\ \E a, b \in Events :
          /\ a < b
          /\ hist[a].ev = "define" /\ hist[a].key = "h0"
          /\ hist[b].ev = "resolve" /\ hist[b].key = "h0"


-----------------------------------------------------------------------------
\* C15: a failure arising in intrinsic_eval, called for the eval intrinsic
\* or for a Codeify node, while its argument is evaluated or while the
\* generated source is parsed or evaluated, leaves it as a failure at the
\* position of the call whose message is "inside eval: " followed by the
\* inner message (which the catch handler recorded in the frame).
C15_EvalWrapsEveryFailure ==
    (runpc = "eval" /\ stack # <<>> /\ mode = "throw"
     /\ InEval(top) /\ top.pc >= 1 /\ ~InTry(top))
    => /\ top.pc = 3
       /\ exc = [pos |-> top.node, msg |-> "inside eval: " \o top.str]


-----------------------------------------------------------------------------
\* The events that name a function-table key.
Keyed == {i \in Events : hist[i].ev \in {"define", "drop", "resolve"}}

\* C17: the function-table key is injective in (identifier, arity): one key
\* never stands for two different pairs, and an invocation that resolves to
\* a definition resolves to one made under the invoked name with as many
\* parameters as the call has arguments.
C17_KeyIsInjective ==
    /\ \A a, b \in Keyed :
          hist[a].key = hist[b].key
             => hist[a].name = hist[b].name /\ hist[a].arity = hist[b].arity
    /\ \A i \in Events :
          (hist[i].ev = "resolve" /\ hist[i].callee # 0)
             => \E d \in 1..(i - 1) :
                   /\ hist[d].ev = "define"
                   /\ hist[d].node = hist[i].callee
                   /\ hist[d].name = hist[i].name
                   /\ hist[d].arity = hist[i].arity


-----------------------------------------------------------------------------
\* C14: a run in which anything fails writes nothing to the output stream,
\* emits a diagnostic and returns 1; the evaluated string is written, once
\* and in full, exactly when evaluation completes and the run returns 0.
\* So a run that has started can end in no other way than by returning.
C14_RunReturnsZeroOrOne ==
    /\ runpc \in {"start", "eval", "exit"}
    /\ runpc \in {"start", "eval"} => out = "" /\ rc = -1
    /\ runpc = "exit" =>
          \/ /\ rc = 0
             /\ exc = NoExc
             /\ out = ret
          \/ /\ rc = 1
             /\ out = ""
             /\ err # <<>>
             /\ Last(err).kind = "error"

\* The integer i, where i is the first position pattern occurs at in string.
IsFirstOccurrence(i, string, pattern) ==
    /\ i + Len(pattern) <= Len(string)
    /\ SubSeq(string, i + 1, i + Len(pattern)) = pattern
    /\ \A j \in 0..(i - 1) : SubSeq(string, j + 1, j + Len(pattern)) # pattern

\* find answers "" exactly when the pattern does not occur, and the decimal
\* index of the first occurrence otherwise.
FindIsFirstOccurrence ==
    call.pc \in {"found", "checked"} =>
        /\ call.found = <<>>
              <=> ~\E i \in 0..Len(call.string) :
                      IsFirstOccurrence(i, call.string, call.pattern)
        /\ call.found # <<>>
              => \E i \in 0..Len(call.string) :
                    /\ call.found = to_string(i)
                    /\ IsFirstOccurrence(i, call.string, call.pattern)

\* C16 as stated: for all strings s and p, the empty ones included, find
\* answers "" exactly when p does not occur in s, and otherwise the index i
\* of the first occurrence, for which slice(s, i, i + |p| - 1) is p.
C16_FindThenSlice ==
    /\ FindIsFirstOccurrence
    /\ call.pc = "checked" =>
          call.result.kind = "value" /\ call.result.value = call.pattern

\* C16 for nonempty patterns: find answers "" exactly when p does not occur
\* in s (for every p), and otherwise the index i of the first occurrence,
\* for which slice(s, i, i + |p| - 1) is p whenever p is not empty.
C16_FindThenSliceNonEmpty ==
    /\ FindIsFirstOccurrence
    /\ (call.pc = "checked" /\ call.pattern # <<>>) =>
          call.result.kind = "value" /\ call.result.value = call.pattern

\* A pattern of two characters was found past the start of a longer string
\* and the slice at the index found gave the pattern back.
C16_Witness ==
    /\ call.pc = "checked"
    /\ Len(call.pattern) = 2
    /\ Len(call.string) = 3
    /\ call.start = 1 /\ call.end = 2
    /\ call.result.kind = "value"
    /\ call.result.value = call.pattern

\* The positioned errors of the range checks of slice.
RangeErrors ==
    {"end of slice cannot be before the start.",
     "slice extends outside of string bounds.",
     "start cannot be negative where end is positive."}

\* C19: for every string and integers start and end, slice fails with one
\* of its three range errors or returns the substring at a window with
\* 0 <= begin and begin + count <= len; substr is never reached with a
\* begin outside the string.
C19_SliceStaysInBounds ==
    call.pc = "sliced" =>
        LET r == call.result
        IN  \/ r.kind = "error" /\ r.msg \in RangeErrors
            \/ /\ r.kind = "value"
               /\ 0 <= r.begin
               /\ r.begin + r.count <= Len(call.string)
               /\ r.value = SubSeq(call.string, r.begin + 1, r.begin + r.count)

====
